---- MODULE Spec2Model ----
(***************************************************************************)
(* Model of yaki (src/yaki/main.py): plugin discovery on top of            *)
(* pkg_resources.  A Python str is a sequence of one-character strings,    *)
(* so that split, join, startswith and the regular expressions are         *)
(* computed character by character as the code computes them.              *)
(*                                                                         *)
(* The environment (pkg_resources.working_set) is chosen by Init and never *)
(* changes.  A client creates a registry with Plugins.create and calls one *)
(* method on it, or calls a module-level function, which creates its own   *)
(* registry (init(name).method(path)).                                     *)
(***************************************************************************)
EXTENDS Integers, Sequences, FiniteSets, TLC

VARIABLES working_set, plugins, pc, op, args, result, calls

vars == <<working_set, plugins, pc, op, args, result, calls>>

\* ------------------------------------------------------------------------
\* Bounds
\* ------------------------------------------------------------------------
MaxSegs == 3
MaxGroups == 2

\* ------------------------------------------------------------------------
\* Python values
\* ------------------------------------------------------------------------
None == [none |-> TRUE]

Return(v) == [ok |-> TRUE, val |-> v]

ValueError(msg) == [ok |-> FALSE, val |-> msg]

Dot == "."

Star == "*"

LF == "\n"

Lower ==
    {"a","b","c","d","e","f","g","h","i","j","k","l","m",
     "n","o","p","q","r","s","t","u","v","w","x","y","z"}

Digits == {"0","1","2","3","4","5","6","7","8","9"}

\* str.startswith
StartsWith(s, prefix) ==
    /\ Len(prefix) <= Len(s)
    /\ SubSeq(s, 1, Len(prefix)) = prefix

\* index of the first sep in s, 0 when there is none
RECURSIVE Find(_, _, _)
Find(s, sep, i) ==
    IF i > Len(s) THEN 0
    ELSE IF s[i] = sep THEN i
    ELSE Find(s, sep, i + 1)

\* str.split(".") : "" splits into [""]
RECURSIVE Split(_)
Split(s) ==
    LET i == Find(s, Dot, 1) IN
    IF i = 0 THEN <<s>>
    ELSE <<SubSeq(s, 1, i - 1)>> \o Split(SubSeq(s, i + 1, Len(s)))

\* ".".join(parts)
RECURSIVE Join(_)
Join(parts) ==
    IF Len(parts) = 0 THEN <<>>
    ELSE IF Len(parts) = 1 THEN parts[1]
    ELSE parts[1] \o <<Dot>> \o Join(Tail(parts))

\* list("*" * n) : n one-character strings, none when n <= 0
Stars(n) == IF n <= 0 THEN <<>> ELSE [i \in 1..n |-> <<Star>>]

Front(s) == SubSeq(s, 1, Len(s) - 1)

Last(s) == s[Len(s)]

\* ------------------------------------------------------------------------
\* Plugins.parse
\* ------------------------------------------------------------------------
\* parse that keeps a leading package segment
parse_keeps_prefix(self_name, path, filler) ==
    LET parts1 == Split(path)
        multiplier == 2 - Len(parts1)
        parts == IF filler THEN parts1 \o Stars(multiplier) ELSE parts1
    IN  IF Len(parts) < 2
        THEN ValueError("Invalid plugin path")
        ELSE Return(<<self_name \o <<Dot>> \o Join(Front(parts)), Last(parts)>>)

\* parse that fills the missing segments on the left
parse_fills_left(self_name, path, filler) ==
    LET parts0 == Split(path)
        parts1 == IF SubSeq(parts0, 1, 1) = <<self_name>>
                  THEN Tail(parts0) ELSE parts0
        multiplier == 2 - Len(parts1)
        parts == IF filler THEN Stars(multiplier) \o parts1 ELSE parts1
    IN  IF Len(parts) < 2
        THEN ValueError("Invalid plugin path")
        ELSE Return(<<self_name \o <<Dot>> \o Join(Front(parts)), Last(parts)>>)

\* parse that takes the first remaining segment as the group and the rest
\* as the name
parse_splits_first(self_name, path, filler) ==
    LET parts0 == Split(path)
        parts1 == IF SubSeq(parts0, 1, 1) = <<self_name>>
                  THEN Tail(parts0) ELSE parts0
        multiplier == 2 - Len(parts1)
        parts == IF filler THEN parts1 \o Stars(multiplier) ELSE parts1
    IN  IF Len(parts) < 2
        THEN ValueError("Invalid plugin path")
        ELSE Return(<<self_name \o <<Dot>> \o parts[1], Join(Tail(parts))>>)

parse(self_name, path, filler) ==
    LET parts0 == Split(path)
        parts1 == IF SubSeq(parts0, 1, 1) = <<self_name>>
                  THEN Tail(parts0) ELSE parts0
        multiplier == 2 - Len(parts1)
        parts == IF filler THEN parts1 \o Stars(multiplier) ELSE parts1
    IN  IF Len(parts) < 2
        THEN ValueError("Invalid plugin path")
        ELSE Return(<<self_name \o <<Dot>> \o Join(Front(parts)), Last(parts)>>)

\* ------------------------------------------------------------------------
\* Strings of the model
\* ------------------------------------------------------------------------
pk == <<"p", "k">>

pk_x == <<"p", "k", "-", "x">>

pkg == <<"p", "k", "g">>

Bar == "|"

\* the segments that paths and patterns are built from
Segs == {pk, pkg, <<"g">>, <<"a">>, <<Star>>, <<Bar>>, <<>>}

RECURSIVE SeqsUpTo(_, _)
SeqsUpTo(S, n) ==
    IF n = 0 THEN {<<>>}
    ELSE LET shorter == SeqsUpTo(S, n - 1)
         IN  shorter \cup {Append(q, x) : q \in shorter, x \in S}

\* every dotted path of 1..MaxSegs segments, alone and after the package
\* name
Paths ==
    LET tails == SeqsUpTo(Segs, MaxSegs) \ {<<>>}
    IN  {Join(q) : q \in tails} \cup {Join(<<pk>> \o q) : q \in tails}

\* ------------------------------------------------------------------------
\* pkg_resources: distributions, entry maps, the working set
\* ------------------------------------------------------------------------
\* an EntryPoint object; dist and section make two objects with the same
\* name distinct, as object identity does
EntryPoint(dist, section, name) ==
    [name |-> name, dist |-> dist, section |-> section]

Section(dist, key, names) ==
    [group |-> key,
     entrypoints |-> [i \in 1..Len(names) |-> EntryPoint(dist, key, names[i])]]

\* what the package pk may register, in registration order: a group that
\* is not its own (as console_scripts), two groups of its own, a group of
\* another package, pkg, and a group with an entry whose name has a "|".
\* pkg_resources takes a group key that matches \w+(\.\w+)* and any name
Registrations ==
    << Section(pk, <<"c", "s">>, << <<"a">> >>),
       Section(pk, pk \o <<Dot, "g">>, << <<"a">>, <<"b">> >>),
       Section(pk, pk \o <<Dot>> \o pkg, << <<"b">>, <<"a">> >>),
       Section(pk, pkg \o <<Dot, "g">>, << <<"a">> >>),
       Section(pk, pk \o <<Dot, "a">>, << <<Bar, Dot, "a">> >>) >>

\* what the package pk-x may register: plugins for a group of pk, one under
\* a name that pk registers too and one under a name of its own
ThirdParty ==
    << Section(pk_x, pk \o <<Dot, "g">>, << <<"b">>, <<"c">> >>) >>

RECURSIVE Pick(_, _, _)
Pick(list, idx, i) ==
    IF i > Len(list) THEN <<>>
    ELSE (IF i \in idx THEN <<list[i]>> ELSE <<>>) \o Pick(list, idx, i + 1)

EntryMaps(list) ==
    {Pick(list, idx, 1) :
        idx \in {x \in SUBSET (1..Len(list)) : Cardinality(x) <= MaxGroups}}

Distribution(name, entry_map) ==
    [project_name |-> name, entry_map |-> entry_map]

WorkingSets ==
    {<<Distribution(pk, m), Distribution(pk_x, t)>> :
        m \in EntryMaps(Registrations), t \in EntryMaps(ThirdParty)}

\* Distribution.get_entry_map(group): the group's entries, empty if absent
RECURSIVE get_entry_map(_, _)
get_entry_map(entry_map, group) ==
    IF Len(entry_map) = 0 THEN <<>>
    ELSE IF entry_map[1].group = group THEN entry_map[1].entrypoints
    ELSE get_entry_map(Tail(entry_map), group)

RECURSIVE ByName(_, _)
ByName(entrypoints, name) ==
    IF Len(entrypoints) = 0 THEN None
    ELSE IF entrypoints[1].name = name THEN entrypoints[1]
    ELSE ByName(Tail(entrypoints), name)

\* Distribution.get_entry_info(group, name): the entry or None
get_entry_info(dist, group, name) ==
    ByName(get_entry_map(dist.entry_map, group), name)

RECURSIVE Concat(_)
Concat(seqs) ==
    IF Len(seqs) = 0 THEN <<>> ELSE seqs[1] \o Concat(Tail(seqs))

\* pkg_resources.iter_entry_points(group): the group's entries of every
\* distribution of the working set, in working-set order
iter_entry_points(ws, group) ==
    Concat([d \in 1..Len(ws) |-> get_entry_map(ws[d].entry_map, group)])

\* pkg_resources.get_distribution(name): the distribution of the working set
\* with that project name, or None (DistributionNotFound)
RECURSIVE get_distribution(_, _)
get_distribution(ws, name) ==
    IF Len(ws) = 0 THEN None
    ELSE IF ws[1].project_name = name THEN ws[1]
    ELSE get_distribution(Tail(ws), name)

\* ------------------------------------------------------------------------
\* Regular expressions
\* ------------------------------------------------------------------------
NameMax == 50

NameHead == Lower \cup {"_"}

NameTail == Lower \cup Digits \cup {"_"}

\* re.match(NAME_PATTERN, name) with NAME_PATTERN = ^[a-z_][a-z0-9_]{1,50}$ :
\* one head character, 1..50 tail characters, then $, which in Python is
\* the end of the string or the position before a final line feed
MatchNamePattern(name) ==
    \E n \in 1..NameMax :
        /\ Len(name) >= 1 + n
        /\ name[1] \in NameHead
        /\ \A i \in 2..(1 + n) : name[i] \in NameTail
        /\ \/ Len(name) = 1 + n
           \/ Len(name) = 2 + n /\ name[2 + n] = LF

AnyPlus == ".+"

\* Plugins._regexify: "." becomes an escaped (literal) dot, then "*"
\* becomes ".+"; nothing else is escaped, so a "|" of the path is the
\* alternation of the regular expression.  Every other character of the
\* model's alphabet is a literal
_regexify(path) ==
    [i \in 1..Len(path) |-> IF path[i] = Star THEN AnyPlus ELSE path[i]]

\* the alternatives of a regular expression: its parts between the "|"
RECURSIVE Alternatives(_)
Alternatives(regex) ==
    LET i == Find(regex, Bar, 1) IN
    IF i = 0 THEN <<regex>>
    ELSE <<SubSeq(regex, 1, i - 1)>>
         \o Alternatives(SubSeq(regex, i + 1, Len(regex)))

\* one alternative, from item i on, matches key at position j; anchored at
\* the start only.  ".+" takes one or more characters other than a line
\* feed
RECURSIVE MatchAt(_, _, _, _)
MatchAt(regex, i, key, j) ==
    IF i > Len(regex) THEN TRUE
    ELSE IF regex[i] = AnyPlus
    THEN \E k \in j..Len(key) :
            /\ \A m \in j..k : key[m] # LF
            /\ MatchAt(regex, i + 1, key, k + 1)
    ELSE /\ j <= Len(key)
         /\ key[j] = regex[i]
         /\ MatchAt(regex, i + 1, key, j + 1)

\* regex.match(key)
re_match(regex, key) ==
    LET alts == Alternatives(regex)
    IN  \E a \in 1..Len(alts) : MatchAt(alts[a], 1, key, 1)

\* ------------------------------------------------------------------------
\* Plugin, PluginGroup
\* ------------------------------------------------------------------------
Plugin(group, entrypoint) == [group |-> group, entrypoint |-> entrypoint]

PluginName(plugin) == plugin.entrypoint.name

PluginPath(plugin) == plugin.group \o <<Dot>> \o PluginName(plugin)

\* EntryPoint.load(): the loaded object, opaque to yaki
EntryPointLoad(entrypoint) == [loaded |-> entrypoint]

PluginLoad(plugin) == EntryPointLoad(plugin.entrypoint)

PluginGroup(name, dist) == [name |-> name, dist |-> dist]

PluginGroupEntrypoints(ws, group) == iter_entry_points(ws, group.name)

PluginGroupPlugins(ws, group) ==
    LET eps == PluginGroupEntrypoints(ws, group)
    IN  [i \in 1..Len(eps) |-> Plugin(group.name, eps[i])]

RECURSIVE FirstNamed(_, _, _)
FirstNamed(eps, group_name, name) ==
    IF Len(eps) = 0 THEN None
    ELSE IF eps[1].name = name THEN Plugin(group_name, eps[1])
    ELSE FirstNamed(Tail(eps), group_name, name)

PluginGroupGet(ws, group, name) ==
    FirstNamed(PluginGroupEntrypoints(ws, group), group.name, name)

\* ------------------------------------------------------------------------
\* Plugins
\* ------------------------------------------------------------------------
Call(fn, arg) == [fn |-> fn, arg |-> arg]

Outcome(res, made) == [result |-> res, calls |-> made]

\* validate_package_name with the upper bound of the pattern forgotten
validate_package_name_unbounded(name) ==
    /\ Len(name) >= 2
    /\ name[1] \in NameHead
    /\ \A i \in 2..Len(name) : name[i] \in NameTail

validate_package_name(name) == MatchNamePattern(name)

\* Plugins.create: a Plugins object is its dist
create(ws, name) ==
    IF ~validate_package_name(name)
    THEN Outcome(ValueError("Invalid package name"), <<>>)
    ELSE LET dist == get_distribution(ws, name)
             made == <<Call("get_distribution", name)>>
         IN  IF dist = None
             THEN Outcome(ValueError("Cannot find package"), made)
             ELSE Outcome(Return(dist), made)

init(ws, name) == create(ws, name)

name_of(self) == self.project_name

RECURSIVE KeysWithPrefix(_, _)
KeysWithPrefix(entry_map, prefix) ==
    IF Len(entry_map) = 0 THEN <<>>
    ELSE (IF StartsWith(entry_map[1].group, prefix)
          THEN <<entry_map[1].group>> ELSE <<>>)
         \o KeysWithPrefix(Tail(entry_map), prefix)

groups(self) == KeysWithPrefix(self.entry_map, name_of(self))

InSeq(x, q) == \E i \in 1..Len(q) : q[i] = x

group(self, name) ==
    LET key == IF ~StartsWith(name, name_of(self))
               THEN name_of(self) \o <<Dot>> \o name
               ELSE name
    IN  IF InSeq(key, groups(self)) THEN PluginGroup(key, self) ELSE None

_get(self, grp, name) ==
    LET entrypoint == get_entry_info(self, grp, name)
    IN  IF entrypoint # None THEN Plugin(grp, entrypoint) ELSE None

get(self, path) ==
    LET parsed == parse(name_of(self), path, FALSE)
    IN  IF ~parsed.ok THEN parsed
        ELSE Return(_get(self, parsed.val[1], parsed.val[2]))

\* Plugins._match over an entry map: the sections whose key matches
RECURSIVE _match(_, _)
_match(entry_map, regex) ==
    IF Len(entry_map) = 0 THEN <<>>
    ELSE (IF re_match(regex, entry_map[1].group)
          THEN <<entry_map[1]>> ELSE <<>>)
         \o _match(Tail(entry_map), regex)

\* Plugins._match over the entries of a section: the names that match
RECURSIVE _match_names(_, _)
_match_names(entrypoints, regex) ==
    IF Len(entrypoints) = 0 THEN <<>>
    ELSE (IF re_match(regex, entrypoints[1].name)
          THEN <<entrypoints[1].name>> ELSE <<>>)
         \o _match_names(Tail(entrypoints), regex)

_search(self, ws, group_pattern, name_pattern) ==
    LET group_regex == _regexify(group_pattern)
        name_regex == _regexify(name_pattern)
        in_section(sec) ==
            LET names == _match_names(sec.entrypoints, name_regex)
            IN  [i \in 1..Len(names) |-> _get(self, sec.group, names[i])]
        in_dist(dist) ==
            LET secs == _match(dist.entry_map, group_regex)
            IN  Concat([i \in 1..Len(secs) |-> in_section(secs[i])])
    IN  Concat([d \in 1..Len(ws) |-> in_dist(ws[d])])

search(self, ws, pattern) ==
    LET parsed == parse(name_of(self), pattern, TRUE)
    IN  IF ~parsed.ok THEN parsed
        ELSE Return(_search(self, ws, parsed.val[1], parsed.val[2]))

\* load that hands back the absent plugin instead of failing
load_lenient(self, path) ==
    LET got == get(self, path)
    IN  IF ~got.ok THEN Outcome(got, <<>>)
        ELSE IF got.val = None
        THEN Outcome(Return(None), <<>>)
        ELSE Outcome(Return(PluginLoad(got.val)),
                     <<Call("load", got.val.entrypoint)>>)

load(self, path) ==
    LET got == get(self, path)
    IN  IF ~got.ok THEN Outcome(got, <<>>)
        ELSE IF got.val = None
        THEN Outcome(ValueError("Cannot find plugin"), <<>>)
        ELSE Outcome(Return(PluginLoad(got.val)),
                     <<Call("load", got.val.entrypoint)>>)

\* module-level get_plugin
get_plugin(ws, path) ==
    LET made == init(ws, Split(path)[1])
    IN  IF ~made.result.ok THEN made
        ELSE Outcome(get(made.result.val, path), made.calls)

\* module-level get_plugins
get_plugins(ws, path) ==
    LET made == init(ws, Split(path)[1])
    IN  IF ~made.result.ok THEN made
        ELSE LET grp == group(made.result.val, path)
             IN  Outcome(Return(IF grp # None
                                THEN PluginGroupPlugins(ws, grp) ELSE <<>>),
                         made.calls)

\* ------------------------------------------------------------------------
\* Inputs
\* ------------------------------------------------------------------------
Repeat(c, n) == [i \in 1..n |-> c]

ShortNames ==
    {<<>>, <<"p">>, pk, pkg, pk_x, <<"k", "p">>, <<Star>>, <<Dot>>,
     <<"0">>, <<"1", "p">>, <<"p", "1">>, <<"_", "_">>, <<"P", "k">>,
     pk \o <<Dot>>, pk \o <<LF>>, pk \o <<LF, LF>>, <<LF>> \o pk,
     <<"p", LF>>}

LongNames ==
    {Repeat("a", n) : n \in (NameMax - 1)..(NameMax + 3)}
    \cup {Repeat("a", n) \o <<LF>> : n \in NameMax..(NameMax + 2)}

PackageNames == ShortNames \cup LongNames

PluginNames == {<<"a">>, <<"b">>, <<"c">>, <<>>, <<Star>>}

NoCall == [fn |-> "none"]

\* ------------------------------------------------------------------------
\* The state machine
\* ------------------------------------------------------------------------
Init ==
    /\ working_set \in WorkingSets
    /\ plugins = None
    /\ pc = "start"
    /\ op = "none"
    /\ args = <<>>
    /\ result = Return(None)
    /\ calls = <<>>

\* plugins = Plugins.create(name)
Create ==
    /\ pc = "start"
    /\ \E name \in PackageNames :
            LET out == create(working_set, name) IN
            /\ op' = "create"
            /\ args' = <<name>>
            /\ result' = out.result
            /\ calls' = out.calls
            /\ plugins' = IF out.result.ok THEN out.result.val ELSE None
            /\ pc' = IF out.result.ok THEN "created" ELSE "done"
            /\ UNCHANGED working_set

Finish(o, a, out) ==
    /\ op' = o
    /\ args' = a
    /\ result' = out.result
    /\ calls' = out.calls
    /\ pc' = "done"
    /\ UNCHANGED <<working_set, plugins>>

\* plugins.parse(path, filler)
Parse ==
    /\ pc = "created"
    /\ \E path \in Paths, filler \in BOOLEAN :
            /\ Finish("parse", <<path, filler>>,
                      Outcome(parse(name_of(plugins), path, filler), <<>>))

\* plugins.group(name)
Group ==
    /\ pc = "created"
    /\ \E name \in Paths :
            /\ Finish("group", <<name>>,
                      Outcome(Return(group(plugins, name)), <<>>))

\* plugins.get(path)
Get ==
    /\ pc = "created"
    /\ \E path \in Paths :
            /\ Finish("get", <<path>>, Outcome(get(plugins, path), <<>>))

\* plugins.search(pattern)
Search ==
    /\ pc = "created"
    /\ \E pattern \in Paths :
            /\ Finish("search", <<pattern>>,
                      Outcome(search(plugins, working_set, pattern), <<>>))

\* plugins.load(path)
Load ==
    /\ pc = "created"
    /\ \E path \in Paths :
            /\ Finish("load", <<path>>, load(plugins, path))

\* plugins.group(gname).get(name)
GroupGet ==
    /\ pc = "created"
    /\ \E gname \in Paths, name \in PluginNames :
            LET grp == group(plugins, gname) IN
            /\ grp # None
            /\ Finish("group.get", <<gname, name>>,
                      Outcome(Return(PluginGroupGet(working_set, grp, name)), <<>>))

\* plugins.group(gname).plugins
GroupPlugins ==
    /\ pc = "created"
    /\ \E gname \in Paths :
            LET grp == group(plugins, gname) IN
            /\ grp # None
            /\ Finish("group.plugins", <<gname>>,
                      Outcome(Return(PluginGroupPlugins(working_set, grp)), <<>>))

\* yaki.get_plugins(path)
GetPlugins ==
    /\ pc = "start"
    /\ \E path \in Paths :
            /\ Finish("get_plugins", <<path>>, get_plugins(working_set, path))

\* yaki.get_plugin(path)
GetPlugin ==
    /\ pc = "start"
    /\ \E path \in Paths :
            /\ Finish("get_plugin", <<path>>, get_plugin(working_set, path))

Next ==
    \/ Create
    \/ Parse
    \/ Group
    \/ Get
    \/ Search
    \/ Load
    \/ GroupGet
    \/ GroupPlugins
    \/ GetPlugins
    \/ GetPlugin

Spec == Init /\ [][Next]_vars

\* ------------------------------------------------------------------------
\* Properties
\* ------------------------------------------------------------------------
Raises(res, msg) == ~res.ok /\ res.val = msg

Returns(res, v) == res.ok /\ res.val = v

SameOutcome(r1, r2) == r1.ok = r2.ok /\ r1.val = r2.val

Known(name) ==
    \E d \in 1..Len(working_set) : working_set[d].project_name = name

\* C1: Plugins.create(name) fails with "Invalid package name" exactly when
\* name does not match NAME_PATTERN, and then the distribution resolver is
\* not called; for a name that matches, the resolver is called once, and
\* create returns the registry of the distribution if the resolver knows
\* the package and fails with "Cannot find package" if it does not.
C1_CreateValidatesThenResolves ==
    op = "create" =>
        LET name == args[1] IN
        /\ Raises(result, "Invalid package name") <=> ~MatchNamePattern(name)
        /\ ~MatchNamePattern(name) => calls = <<>>
        /\ MatchNamePattern(name) =>
              /\ calls = <<Call("get_distribution", name)>>
              /\ Known(name) =>
                    /\ result.ok
                    /\ \E d \in 1..Len(working_set) :
                          result.val = working_set[d]
                    /\ plugins = result.val
              /\ ~Known(name) => Raises(result, "Cannot find package")

\* a name one character longer than the pattern allows is rejected before
\* the resolver is asked
C1_Witness ==
    /\ op = "create"
    /\ args = <<Repeat("a", NameMax + 2)>>
    /\ Raises(result, "Invalid package name")
    /\ calls = <<>>

PackagePrefix == pk \o <<Dot>>

WithoutPrefix(path) == SubSeq(path, Len(PackagePrefix) + 1, Len(path))

\* C4 (as claimed): for every path p that begins with "pk.", parse(p) has
\* the same outcome as parse of p without that prefix, with and without
\* wildcard filling.
C4_PrefixIsOptional ==
    (op = "parse" /\ StartsWith(args[1], PackagePrefix)) =>
        SameOutcome(result,
                    parse(name_of(plugins), WithoutPrefix(args[1]), args[2]))

\* C4 (amended): for every path p that begins with "pk." and whose next
\* segment is not the package name again, parse(p) has the same outcome as
\* parse of p without that prefix, with and without wildcard filling.
C4_PrefixIsOptionalOnce ==
    (/\ op = "parse"
     /\ StartsWith(args[1], PackagePrefix)
     /\ Split(WithoutPrefix(args[1]))[1] # pk) =>
        SameOutcome(result,
                    parse(name_of(plugins), WithoutPrefix(args[1]), args[2]))

C4_Witness ==
    /\ op = "parse"
    /\ args = <<pk \o <<Dot, "g", Dot, "a">>, FALSE>>
    /\ Returns(result, <<pk \o <<Dot, "g">>, <<"a">>>>)

\* C10 (as claimed): with wildcard filling, parse of the bare package name
\* returns (pk.*, *) and parse of the empty path fails with "Invalid plugin
\* path".
C10_EmptyPathFailsWithFilling ==
    (op = "parse" /\ args[2]) =>
        /\ args[1] = pk => Returns(result, <<pk \o <<Dot, Star>>, <<Star>>>>)
        /\ args[1] = <<>> => Raises(result, "Invalid plugin path")

\* C10 (amended): with wildcard filling, parse of the bare package name
\* returns (pk.*, *) and parse of the empty path also succeeds, returning
\* (pk., *); the empty path fails with "Invalid plugin path" only without
\* filling.
C10_EmptyPathIsFilled ==
    op = "parse" =>
        /\ (args[2] /\ args[1] = pk) =>
              Returns(result, <<pk \o <<Dot, Star>>, <<Star>>>>)
        /\ (args[2] /\ args[1] = <<>>) =>
              Returns(result, <<pk \o <<Dot>>, <<Star>>>>)
        /\ (~args[2] /\ args[1] = <<>>) =>
              Raises(result, "Invalid plugin path")

C10_Witness ==
    /\ op = "parse"
    /\ args = <<<<>>, TRUE>>
    /\ Returns(result, <<pk \o <<Dot>>, <<Star>>>>)

\* the (group key, name key) pairs of an entry map that match two compiled
\* patterns, in the entry map's order
MatchedPairs(entry_map, group_regex, name_regex) ==
    LET secs == _match(entry_map, group_regex)
        of_section(sec) ==
            LET names == _match_names(sec.entrypoints, name_regex)
            IN  [i \in 1..Len(names) |-> <<sec.group, names[i]>>]
    IN  Concat([i \in 1..Len(secs) |-> of_section(secs[i])])

MatchedPairsOfWorkingSet(pattern) ==
    LET parsed == parse(name_of(plugins), pattern, TRUE).val
        group_regex == _regexify(parsed[1])
        name_regex == _regexify(parsed[2])
    IN  Concat([d \in 1..Len(working_set) |->
                   MatchedPairs(working_set[d].entry_map,
                                group_regex, name_regex)])

IsPluginFor(x, pair) ==
    /\ x # None
    /\ x.group = pair[1]
    /\ PluginName(x) = pair[2]

\* C2: search(pattern) yields exactly one Plugin for every (group key, name
\* key) pair of the entry maps of the working set whose group key matches
\* the group pattern and whose name key matches the name pattern, in
\* entry-map order; every element is a real Plugin, never None, with the
\* group and name of its pair; and the call does not fail when nothing
\* matches.
C2_SearchYieldsAPluginPerMatch ==
    op = "search" =>
        LET pairs == MatchedPairsOfWorkingSet(args[1]) IN
        /\ result.ok
        /\ Len(result.val) = Len(pairs)
        /\ \A i \in 1..Len(pairs) : IsPluginFor(result.val[i], pairs[i])

\* the plugins of the bound distribution whose group and name match path,
\* a short path being completed with trailing wildcards
PluginsMatching(dist, path) ==
    LET parsed == parse(name_of(dist), path, TRUE).val
        pairs == MatchedPairs(dist.entry_map,
                              _regexify(parsed[1]), _regexify(parsed[2]))
    IN  [i \in 1..Len(pairs) |->
            Plugin(pairs[i][1],
                   get_entry_info(dist, pairs[i][1], pairs[i][2]))]

\* C3: get_plugins(path), for a path that starts with the package name,
\* returns in registration order exactly the plugins whose group and name
\* match path ("*" a wildcard, a path naming only the package or a group
\* completed with trailing wildcards), and the empty list, without
\* raising, when nothing matches.
C3_GetPluginsReturnsTheMatches ==
    (op = "get_plugins" /\ Split(args[1])[1] = pk) =>
        Returns(result, PluginsMatching(working_set[1], args[1]))

\* the Plugin objects of a result: of a list, or of a single value
PluginsOf(v) ==
    IF op \in {"search", "group.plugins"}
    THEN {v[i] : i \in {j \in 1..Len(v) : v[j] # None}}
    ELSE IF v # None THEN {v} ELSE {}

\* C5: for every Plugin returned by get, search, group(...).get or
\* group(...).plugins, parse(plugin.path) = (plugin.group, plugin.name).
C5_PathRoundTrip ==
    (op \in {"get", "search", "group.get", "group.plugins"} /\ result.ok) =>
        \A x \in PluginsOf(result.val) :
            Returns(parse(name_of(plugins), PluginPath(x), FALSE),
                    <<x.group, PluginName(x)>>)

OwnGroupKeys ==
    {plugins.entry_map[i].group : i \in 1..Len(plugins.entry_map)}

\* C6: for every registered group key pk.G, group("pk.G") and group("G")
\* both return the PluginGroup named pk.G; for a name that corresponds to
\* no registered group, group returns None and does not raise.
C6_GroupByEitherName ==
    op = "group" =>
        /\ result.ok
        /\ \A key \in OwnGroupKeys :
              (/\ StartsWith(key, PackagePrefix)
               /\ args[1] \in {key, WithoutPrefix(key)}) =>
                    result.val = PluginGroup(key, plugins)
        /\ (args[1] \notin OwnGroupKeys
            /\ PackagePrefix \o args[1] \notin OwnGroupKeys) =>
                    result.val = None

\* C7: PluginGroup.get(name) returns the Plugin of the entry registered
\* under the group's name in the owning distribution's entry map, whatever
\* other distributions register under that group name, and None for every
\* other name.
C7_GroupGetReadsTheOwningDistribution ==
    op = "group.get" =>
        LET key == group(plugins, args[1]).name
            entry == get_entry_info(plugins, key, args[2])
        IN  /\ result.ok
            /\ result.val = (IF entry # None THEN Plugin(key, entry) ELSE None)

\* C8: for every path that parses, load(path) fails with "Cannot find
\* plugin" exactly when get(path) returns None, and otherwise calls the
\* loader of the resolved entry once and returns what it returns; get does
\* not fail for an unregistered (group, name).
C8_LoadFailsIffGetIsAbsent ==
    LET parsed == parse(name_of(plugins), args[1], FALSE) IN
    /\ (op = "load" /\ parsed.ok) =>
          LET entry == get_entry_info(plugins, parsed.val[1], parsed.val[2])
          IN  /\ Raises(result, "Cannot find plugin")
                    <=> get(plugins, args[1]).val = None
              /\ entry = None <=> get(plugins, args[1]).val = None
              /\ entry = None => calls = <<>>
              /\ entry # None =>
                    /\ Returns(result, EntryPointLoad(entry))
                    /\ calls = <<Call("load", entry)>>
    /\ (op = "get" /\ parsed.ok) => result.ok

C8_Witness ==
    /\ op = "load"
    /\ args = <<pk \o <<Dot, "g", Dot, "a">>>>
    /\ Returns(result,
               EntryPointLoad(EntryPoint(pk, pk \o <<Dot, "g">>, <<"a">>)))
    /\ Len(calls) = 1
    /\ calls[1].fn = "load"

\* search("pk.*.*")
WildcardSearch ==
    search(plugins, working_set, pk \o <<Dot, Star, Dot, Star>>).val

InSearch(x, found) == \E i \in 1..Len(found) : found[i] = x

\* the registered (group, name) that a pattern pk.G.N spells out
Spells(pattern, sec, ep) ==
    /\ StartsWith(sec.group, PackagePrefix)
    /\ pattern = sec.group \o <<Dot>> \o ep.name

\* C9: for every registered group pk.G and name N, every
\* Plugin returned by search("pk.G.N") is also returned by search("pk.*.*").
C9_WildcardSearchIsASuperset ==
    (/\ op = "search"
     /\ \E i \in 1..Len(plugins.entry_map) :
           \E j \in 1..Len(plugins.entry_map[i].entrypoints) :
               Spells(args[1], plugins.entry_map[i],
                      plugins.entry_map[i].entrypoints[j])) =>
        \A x \in PluginsOf(result.val) : InSearch(x, WildcardSearch)

\* the segments of path that remain once a leading segment equal to the
\* package name is dropped
Remaining(package, path) ==
    LET segs == Split(path)
    IN  IF segs[1] = package THEN Tail(segs) ELSE segs

\* the (group, name) that the remaining segments spell: the last one is the
\* name, the package name and all the others, dotted, are the group
Spelled(package, segs) ==
    <<package \o <<Dot>> \o Join(Front(segs)), Last(segs)>>

\* what get gives for the remaining segments: the registered Plugin of the
\* spelled (group, name), or None
Resolved(dist, segs) ==
    LET pair == Spelled(name_of(dist), segs)
        entry == get_entry_info(dist, pair[1], pair[2])
    IN  IF entry # None THEN Plugin(pair[1], entry) ELSE None

ParseFollowsSegments ==
    (op = "parse" /\ ~args[2]) =>
        LET segs == Remaining(name_of(plugins), args[1]) IN
        /\ Raises(result, "Invalid plugin path") <=> Len(segs) < 2
        /\ Len(segs) >= 2 => Returns(result, Spelled(name_of(plugins), segs))

GetFollowsSegments ==
    op = "get" =>
        LET segs == Remaining(name_of(plugins), args[1]) IN
        /\ Raises(result, "Invalid plugin path") <=> Len(segs) < 2
        /\ Len(segs) >= 2 => Returns(result, Resolved(plugins, segs))

\* get_plugin binds its registry to the first segment of the path
FirstSegment(path) == Split(path)[1]

\* C11 (as claimed): without wildcard filling, parse(path), get(path) and
\* get_plugin(path) fail with "Invalid plugin path" exactly when fewer than
\* 2 segments remain after a leading package-name segment is dropped;
\* otherwise the name is the last segment and the group is the package
\* name joined by dots with all the other remaining segments.
C11_InvalidPathIffFewerThanTwoSegments ==
    /\ ParseFollowsSegments
    /\ GetFollowsSegments
    /\ op = "get_plugin" =>
          LET package == FirstSegment(args[1])
              segs == Remaining(package, args[1])
          IN  Raises(result, "Invalid plugin path") <=> Len(segs) < 2

\* C11 (amended): the same for parse(path) and get(path); get_plugin(path)
\* does so when the first segment of path is a valid name of a known
\* package, and otherwise fails as Plugins.create fails for that segment,
\* before the path is parsed.
C11_InvalidPathIffFewerThanTwoSegmentsOfAPackage ==
    /\ ParseFollowsSegments
    /\ GetFollowsSegments
    /\ op = "get_plugin" =>
          LET package == FirstSegment(args[1])
              segs == Remaining(package, args[1])
              dist == get_distribution(working_set, package)
          IN  /\ ~MatchNamePattern(package) =>
                    Raises(result, "Invalid package name")
              /\ (MatchNamePattern(package) /\ dist = None) =>
                    Raises(result, "Cannot find package")
              /\ (MatchNamePattern(package) /\ dist # None) =>
                    /\ Raises(result, "Invalid plugin path") <=> Len(segs) < 2
                    /\ Len(segs) >= 2 => Returns(result, Resolved(dist, segs))

\* a group of two segments: only the last segment of the path is the name
C11_Witness ==
    /\ op = "parse"
    /\ args = <<pk \o <<Dot>> \o pkg \o <<Dot, "g", Dot, "a">>, FALSE>>
    /\ Returns(result, <<pk \o <<Dot>> \o pkg \o <<Dot, "g">>, <<"a">>>>)

====
